---- MODULE Spec2Model ----
(***************************************************************************)
(* A model of fogstar_exporter.py: the field decoder (convert), the        *)
(* telemetry parser (handle_response), the frame assembler                 *)
(* (notification_handler), the session driver (poll) and the reconnection  *)
(* supervisor (main).                                                      *)
(*                                                                         *)
(* Numbers.  Decoded values are Python floats raw * 0.01 or                *)
(* (raw - 2731) * 0.1.  The model keeps the integer raw + offset together  *)
(* with the denominator of the scale (100 for 0.01, 10 for 0.1, 1 for 1),  *)
(* and compares raw + offset with min_val * den and max_val * den.  For    *)
(* every two-byte input of every call site the float comparison and the    *)
(* exact comparison agree (30.0, 100.0, 20.0 and 200.0 are reached without *)
(* rounding error), so the scaled integers decide exactly as the code.     *)
(***************************************************************************)
EXTENDS Integers, Sequences, FiniteSets, TLC

VARIABLES
    pc,         \* where the coroutine main/poll is suspended
    backoff,    \* main: the local variable backoff (seconds)
    errors,     \* the Counter fogstar_errors
    sleeps,     \* history: the durations main has slept in its except branch
    polled,     \* history: the current/last session completed a write + 10 s wait
    response,   \* the module-level bytearray response
    gauges,     \* the Gauge objects the parser sets
    now,        \* logical clock read by set_to_current_time
    last,       \* history: what the most recent notification_handler call did
    delivered,  \* history: every byte the transport has delivered, in order
    emittedAll, \* history: every frame handed to handle_response, in order
    recent,     \* history: the last two transport events of the current session
    failures,   \* history: the number of awaits of poll that raised
    args,       \* decoder harness: the arguments of one call of convert
    ret         \* decoder harness: what that call returned or raised

vars == <<pc, backoff, errors, sleeps, polled, response, gauges, now, last,
          delivered, emittedAll, recent, failures, args, ret>>

\* the history of the notification stream
stream == <<delivered, emittedAll>>

\* the decoder harness, which the exporter's own steps never touch
harness == <<args, ret>>

----------------------------------------------------------------------------
(* Bounds of the model.                                                    *)

\* transport failures explored (nine show 1, 2, ..., 64, 120, 120)
MaxErrors == 9
\* notification chunks delivered over the whole run (two show a fragment
\* and its completion, a failure and a later success, a buffer carried from
\* one session into the next)
MaxChunks == 2

----------------------------------------------------------------------------
(* Bytes and Python slicing.                                               *)

Min(a, b) == IF a < b THEN a ELSE b

\* data[a:b] for 0 <= a <= b: the slice is clipped to the data, never an error
Slice(data, a, b) ==
    IF a >= Min(b, Len(data)) THEN << >>
    ELSE SubSeq(data, a + 1, Min(b, Len(data)))

RECURSIVE Pow256(_)
Pow256(n) == IF n = 0 THEN 1 ELSE 256 * Pow256(n - 1)

RECURSIVE Unsigned(_)
\* big-endian value of a byte sequence; the empty sequence is 0
Unsigned(data) ==
    IF data = << >> THEN 0
    ELSE 256 * Unsigned(SubSeq(data, 1, Len(data) - 1)) + data[Len(data)]

\* int.from_bytes(data, byteorder="big", signed=signed)
FromBytes(data, signed) ==
    LET u == Unsigned(data)
    IN  IF signed /\ data # << >> /\ 2 * u >= Pow256(Len(data))
        THEN u - Pow256(Len(data))
        ELSE u

\* response.endswith(b"w")
Terminator == 119
EndsWithTerminator(buf) == buf # << >> /\ buf[Len(buf)] = Terminator

----------------------------------------------------------------------------
(* convert: the field decoder.  scale is 1 / den; the value returned is    *)
(* raw + offset in units of 1 / den.                                       *)

ConvertAccepts(result, min_val, max_val, den) ==
    ~(result < min_val * den) /\ ~(result > max_val * den)

\* a decoder that clamps to the bounds instead of rejecting
convertClamp(data, signed, min_val, max_val, den, offset) ==
    LET result == FromBytes(data, signed) + offset
    IN  [raised |-> FALSE,
         value  |-> IF result < min_val * den THEN min_val * den
                    ELSE IF result > max_val * den THEN max_val * den
                    ELSE result]

convert(data, signed, min_val, max_val, den, offset) ==
    LET result == FromBytes(data, signed) + offset
    IN  [raised |-> ~ConvertAccepts(result, min_val, max_val, den),
         value  |-> result]

----------------------------------------------------------------------------
(* The metrics sink.  A labelled Gauge has no child until labels() is      *)
(* called for the label values; the child then exists with value 0.  A     *)
(* child is << >> while it does not exist and <<v>> once it does.          *)
(* temperature has one child per sensor index: a function from the         *)
(* indices that exist to their values.  last_fetch has no labels and       *)
(* starts at 0.  voltage, current and the capacities are in hundredths,    *)
(* temperatures in tenths of a degree.                                     *)

InitGauges ==
    [voltage |-> << >>, current |-> << >>,
     capacity_remaining |-> << >>, capacity_full |-> << >>,
     cycles |-> << >>, temperature |-> << >>, last_fetch |-> 0]

\* gauge.labels(...): the child, created at 0 when it did not exist
Labels(child) == IF child = << >> THEN <<0>> ELSE child

\* temperature.labels(self.address, str(i))
TemperatureLabels(children, i) ==
    IF i \in DOMAIN children THEN children ELSE (i :> 0) @@ children

\* The outcome of handle_response: the sink as it is left, and whether an
\* exception left the function.
Outcome(g, raised) == [gauges |-> g, raised |-> raised]

\* a parser that never stamps
SetToCurrentTimeNever(g, t) == g

\* last_fetch.set_to_current_time()
SetToCurrentTime(g, t) == [g EXCEPT !.last_fetch = t]

RECURSIVE TemperatureLoop(_, _, _, _, _)
\* for i in range(n): temperature.labels(..).set(convert(data[23+i*2 : i*2+25], ..))
\* followed by last_fetch.set_to_current_time()
TemperatureLoop(g, data, i, n, t) ==
    IF i >= n THEN Outcome(SetToCurrentTime(g, t), FALSE)
    ELSE LET g0 == [g EXCEPT !.temperature = TemperatureLabels(@, i)]
             c  == convert(Slice(data, 23 + i * 2, i * 2 + 25),
                           FALSE, -30, 100, 10, -2731)
         IN  IF c.raised THEN Outcome(g0, TRUE)
             ELSE TemperatureLoop(
                      [g0 EXCEPT !.temperature = (i :> c.value) @@ @],
                      data, i + 1, n, t)

\* handle_response(data): every statement in order; labels() is evaluated
\* before the argument of set(), so the child exists even when convert raises.
handle_response(g, frame, t) ==
    LET data == Slice(frame, 4, Len(frame))
        cV   == convert(Slice(data, 0, 2), TRUE, 0, 20, 100, 0)
        cI   == convert(Slice(data, 2, 4), TRUE, -200, 200, 100, 0)
        cR   == convert(Slice(data, 4, 6), TRUE, 0, 200, 100, 0)
        cF   == convert(Slice(data, 6, 8), TRUE, 0, 200, 100, 0)
        cC   == convert(Slice(data, 8, 10), TRUE, 0, 100000, 1, 0)
        n    == FromBytes(Slice(data, 22, 23), FALSE)
        gV0  == [g   EXCEPT !.voltage = Labels(@)]
        gV   == [gV0 EXCEPT !.voltage = <<cV.value>>]
        gI0  == [gV  EXCEPT !.current = Labels(@)]
        gI   == [gI0 EXCEPT !.current = <<cI.value>>]
        gR0  == [gI  EXCEPT !.capacity_remaining = Labels(@)]
        gR   == [gR0 EXCEPT !.capacity_remaining = <<cR.value>>]
        gF0  == [gR  EXCEPT !.capacity_full = Labels(@)]
        gF   == [gF0 EXCEPT !.capacity_full = <<cF.value>>]
        gC0  == [gF  EXCEPT !.cycles = Labels(@)]
        gC   == [gC0 EXCEPT !.cycles = <<cC.value>>]
    IN  IF cV.raised THEN Outcome(gV0, TRUE)
        ELSE IF cI.raised THEN Outcome(gI0, TRUE)
        ELSE IF cR.raised THEN Outcome(gR0, TRUE)
        ELSE IF cF.raised THEN Outcome(gF0, TRUE)
        ELSE IF cC.raised THEN Outcome(gC0, TRUE)
        ELSE TemperatureLoop(gC, data, 0, n, t)

----------------------------------------------------------------------------
(* Inputs: the notification chunks the transport may deliver.              *)

\* two bytes, big-endian, two's complement for a negative n
U16(n) == LET m == n % 65536 IN <<m \div 256, m % 256>>

Header == <<221, 3, 0, 27>>
Filler == <<0, 0, 0, 0, 0, 0, 0, 0, 0, 0, 0, 0>>
Checksum == <<0, 0>>

\* header, the five fixed fields, data[10:22], the declared sensor count,
\* whatever follows it, and the terminator
MkFrame(v, i, cr, cf, cy, n, tail) ==
    Header \o U16(v) \o U16(i) \o U16(cr) \o U16(cf) \o U16(cy) \o Filler
           \o <<n>> \o tail \o <<Terminator>>

\* complete frames, every field in range
FrameA == MkFrame(1500, -300, 100, 150, 42, 2, U16(2731) \o U16(3000) \o Checksum)
FrameB == MkFrame(2000, 200, 20000, 20000, 7, 1, U16(2431) \o Checksum)
\* complete frames with one field out of range
FrameBadVoltage     == MkFrame(2001, 10, 100, 150, 1, 1, U16(2931) \o Checksum)
FrameBadCurrent     == MkFrame(1300, 32767, 100, 150, 1, 1, U16(2931) \o Checksum)
FrameBadCapacity    == MkFrame(1310, 20, 20001, 150, 1, 1, U16(2931) \o Checksum)
FrameBadCycles      == MkFrame(1320, 30, 110, 160, 32768, 1, U16(2931) \o Checksum)
FrameBadTemperature == MkFrame(1330, 40, 120, 170, 3, 2, U16(2941) \o U16(3732) \o Checksum)
\* frames cut short of their declared temperature fields: the terminator
\* follows the high byte of the only field, or the first of two fields
FrameCutInField    == MkFrame(1340, 50, 130, 180, 4, 1, <<11>>)
FrameCutAfterField == MkFrame(1350, 60, 140, 190, 5, 2, U16(2951))

GoodFrames == {FrameA, FrameB}
BadFrames  == {FrameBadVoltage, FrameBadCurrent, FrameBadCapacity,
               FrameBadCycles, FrameBadTemperature}
CutFrames  == {FrameCutInField, FrameCutAfterField}

\* fragments: b"AB", b"CD" + terminator, and FrameA cut in two
ChunkAB   == <<65, 66>>
ChunkCDw  == <<67, 68, Terminator>>
ChunkHead == SubSeq(FrameA, 1, 10)
ChunkTail == SubSeq(FrameA, 11, Len(FrameA))

Chunks ==
    GoodFrames \cup BadFrames \cup CutFrames
    \cup {ChunkAB, ChunkCDw, ChunkHead, ChunkTail, FrameA \o FrameB}

----------------------------------------------------------------------------
(* notification_handler: the frame assembler.                              *)

\* the frame handed over without its terminator
FramesStripped(buf) ==
    IF EndsWithTerminator(buf) THEN <<SubSeq(buf, 1, Len(buf) - 1)>> ELSE << >>

\* the frames handed to handle_response for the buffer after response += data
Frames(buf) == IF EndsWithTerminator(buf) THEN <<buf>> ELSE << >>

\* a handler without the try statement
HandlerCatchesNothing(exc) == FALSE

\* except Exception: the classes the handler's try statement absorbs
HandlerCatches(exc) == exc \in {"ValueError", "TypeError", "IndexError"}

\* the reset placed inside the try block, after the call
ClearedOnSuccess(buf, raised) == IF raised THEN buf ELSE << >>

\* response after a frame was handed over: line 91 follows the try statement,
\* so it runs whether or not the parse raised
Cleared(buf, raised) == << >>

\* response = data
AccumulateOverwrite(buf, data) == data

\* response += data
Accumulate(buf, data) == buf \o data

\* last: the chunk of the call, response before it, the chunks delivered
\* since the call before it that emitted a frame (this one included), the
\* frames it handed to handle_response and whether that raised
NoCall == [chunk |-> << >>, before |-> << >>, fed |-> << >>,
           emitted |-> << >>, raised |-> FALSE]

FedWith(data) ==
    IF last.emitted = << >> THEN Append(last.fed, data) ELSE <<data>>

\* One delivery of a notification.  The callback is registered by
\* start_notify and runs to completion between two awaits of poll.
NotificationHandler(data) ==
    /\ pc \in {"settle", "write", "wait"}
    /\ now < MaxChunks
    /\ LET buf == Accumulate(response, data)
           out == handle_response(gauges, buf, now + 1)
       IN  IF Frames(buf) = << >>
           THEN /\ response' = buf
                /\ gauges' = gauges
                /\ pc' = pc
                /\ last' = [chunk |-> data, before |-> response,
                            fed |-> FedWith(data),
                            emitted |-> << >>, raised |-> FALSE]
           ELSE /\ gauges' = out.gauges
                /\ IF out.raised /\ ~HandlerCatches("ValueError")
                   THEN response' = buf /\ pc' = "terminated"
                   ELSE response' = Cleared(buf, out.raised) /\ pc' = pc
                /\ last' = [chunk |-> data, before |-> response,
                            fed |-> FedWith(data),
                            emitted |-> Frames(buf), raised |-> out.raised]
    /\ now' = now + 1
    /\ delivered' = delivered \o data
    /\ emittedAll' = emittedAll \o Frames(Accumulate(response, data))
    /\ UNCHANGED <<backoff, errors, sleeps, polled, recent, failures, harness>>

Notification == \E data \in Chunks : NotificationHandler(data)

----------------------------------------------------------------------------
(* poll: the session driver.  pc names the await the coroutine is at.      *)

\* bytes([0xDD, 0xA5, 0x03, 0x00, 0xFF, 0xFD, 0x77])
StatusRequest == <<221, 165, 3, 0, 255, 253, 119>>
\* asyncio.sleep(3) and asyncio.sleep(10)
SettleDelay == 3
PollInterval == 10

\* one transport event of a session: an operation, the seconds of a sleep,
\* the bytes of a write
Event(op, secs, bytes) == [op |-> op, secs |-> secs, bytes |-> bytes]

\* recent keeps the last two events
Push(ev) == IF Len(recent) < 2 THEN Append(recent, ev) ELSE <<recent[2], ev>>

\* a poll that enters its loop right after start_notify
AfterSubscribeNoSettle == "write"

\* where poll is suspended once start_notify has returned: the sleep of
\* line 97, ahead of the loop
AfterSubscribe == "settle"

\* errors that are not counted
IncNothing(n) == n

\* errors.inc()
Inc(n) == n + 1

\* a supervisor without the except clause
MainCatchesNothing(exc) == FALSE

\* except BleakError as e
MainCatches(exc) == exc = "BleakError"

\* doubling without the ceiling
NextBackoffUncapped(b) == b * 2

\* min(backoff * 2, 120)
NextBackoff(b) == Min(b * 2, 120)

NoArgs == [data |-> << >>, signed |-> TRUE, min_val |-> 0, max_val |-> 0,
           den |-> 1, offset |-> 0]
NoRet == [called |-> FALSE, raised |-> FALSE, value |-> 0]

\* An await of poll raises: the exception leaves poll (the client is
\* disconnected on the way out) and reaches the try statement of main,
\* which counts it and starts the sleep of line 114.
Raise(exc) ==
    /\ errors < MaxErrors
    /\ IF MainCatches(exc)
       THEN pc' = "backoff" /\ errors' = Inc(errors)
       ELSE pc' = "terminated" /\ errors' = errors
    /\ failures' = failures + 1
    /\ recent' = << >>
    /\ UNCHANGED <<backoff, sleeps, polled, response, gauges, now, last, stream,
                   harness>>

\* async with BleakClient(address) as client
Connect ==
    /\ pc = "connect"
    /\ pc' = "subscribe"
    /\ polled' = FALSE
    /\ recent' = <<Event("connect", 0, << >>)>>
    /\ UNCHANGED <<backoff, errors, sleeps, response, gauges, now, last, stream,
                   failures, harness>>

ConnectFails == pc = "connect" /\ Raise("BleakError")

\* await client.start_notify(READ_CHARACTERISTIC, self.notification_handler)
Subscribe ==
    /\ pc = "subscribe"
    /\ pc' = AfterSubscribe
    /\ recent' = Push(Event("subscribe", 0, << >>))
    /\ UNCHANGED <<backoff, errors, sleeps, polled, response, gauges, now, last,
                   stream, failures, harness>>

SubscribeFails == pc = "subscribe" /\ Raise("BleakError")

\* await asyncio.sleep(3)
Settle ==
    /\ pc = "settle"
    /\ pc' = "write"
    /\ recent' = Push(Event("sleep", SettleDelay, << >>))
    /\ UNCHANGED <<backoff, errors, sleeps, polled, response, gauges, now, last,
                   stream, failures, harness>>

\* await client.write_gatt_char(WRITE_CHARACTERISTIC, ...)
Write ==
    /\ pc = "write"
    /\ pc' = "wait"
    /\ recent' = Push(Event("write", 0, StatusRequest))
    /\ UNCHANGED <<backoff, errors, sleeps, polled, response, gauges, now, last,
                   stream, failures, harness>>

WriteFails == pc = "write" /\ Raise("BleakError")

\* await asyncio.sleep(10), then the next turn of while True
Wait ==
    /\ pc = "wait"
    /\ pc' = "write"
    /\ polled' = TRUE
    /\ recent' = Push(Event("sleep", PollInterval, << >>))
    /\ UNCHANGED <<backoff, errors, sleeps, response, gauges, now, last, stream,
                   failures, harness>>

----------------------------------------------------------------------------
(* main: the reconnection supervisor.                                      *)

\* await asyncio.sleep(backoff) returns; backoff = min(backoff * 2, 120);
\* the next turn of while True calls poll again
BackoffSleep ==
    /\ pc = "backoff"
    /\ sleeps' = Append(sleeps, backoff)
    /\ backoff' = NextBackoff(backoff)
    /\ pc' = "connect"
    /\ UNCHANGED <<errors, polled, response, gauges, now, last, stream, recent,
                   failures, harness>>

Init ==
    /\ pc = "connect"
    /\ backoff = 1
    /\ errors = 0
    /\ sleeps = << >>
    /\ polled = FALSE
    /\ response = << >>
    /\ gauges = InitGauges
    /\ now = 0
    /\ last = NoCall
    /\ delivered = << >>
    /\ emittedAll = << >>
    /\ recent = << >>
    /\ failures = 0
    /\ args = NoArgs
    /\ ret = NoRet

Next ==
    \/ Connect
    \/ ConnectFails
    \/ Subscribe
    \/ SubscribeFails
    \/ Settle
    \/ Write
    \/ WriteFails
    \/ Wait
    \/ BackoffSleep
    \/ Notification

Spec == Init /\ [][Next]_vars

\* a sleep that was started ends
FairSpec == Spec /\ WF_vars(BackoffSleep)

----------------------------------------------------------------------------
(* The decoder on its own: one call of convert on a field slice, with the  *)
(* parameters of a call site of handle_response and either signedness.     *)

\* low bytes around every bound of every call site (2000 = 07 D0,
\* 20000 = 4E 20, -20000 = B1 E0, 2431 = 09 7F, 3731 = 0E 93)
LowBytes == {0, 1, 31, 32, 33, 126, 127, 128, 147, 148, 207, 208, 209,
             223, 224, 225, 255}

\* a slice data[a : a + 2] holds two bytes, or one or none at the end of data
FieldSlices ==
    {<< >>} \cup {<<b>> : b \in 0..255}
            \cup {<<h, l>> : h \in 0..255, l \in LowBytes}

\* min_val, max_val, the denominator of scale, offset
VoltageSite     == <<0, 20, 100, 0>>
CurrentSite     == <<-200, 200, 100, 0>>
CapacitySite    == <<0, 200, 100, 0>>
CyclesSite      == <<0, 100000, 1, 0>>
TemperatureSite == <<-30, 100, 10, -2731>>
Sites == {VoltageSite, CurrentSite, CapacitySite, CyclesSite, TemperatureSite}

ArgsOf(data, signed, site) ==
    [data |-> data, signed |-> signed, min_val |-> site[1],
     max_val |-> site[2], den |-> site[3], offset |-> site[4]]

InitConvert ==
    /\ pc = "connect"
    /\ backoff = 1
    /\ errors = 0
    /\ sleeps = << >>
    /\ polled = FALSE
    /\ response = << >>
    /\ gauges = InitGauges
    /\ now = 0
    /\ last = NoCall
    /\ delivered = << >>
    /\ emittedAll = << >>
    /\ recent = << >>
    /\ failures = 0
    /\ args \in {ArgsOf(d, sg, st) : d \in FieldSlices, sg \in BOOLEAN, st \in Sites}
    /\ ret = NoRet

ConvertCall ==
    /\ ~ret.called
    /\ LET c == convert(args.data, args.signed, args.min_val, args.max_val,
                        args.den, args.offset)
       IN  ret' = [called |-> TRUE, raised |-> c.raised, value |-> c.value]
    /\ UNCHANGED <<pc, backoff, errors, sleeps, polled, response, gauges, now,
                   last, stream, recent, failures, args>>

NextConvert == ConvertCall

SpecConvert == InitConvert /\ [][NextConvert]_vars

----------------------------------------------------------------------------
(* Properties.                                                             *)

RECURSIVE Pow2(_)
Pow2(n) == IF n = 0 THEN 1 ELSE 2 * Pow2(n - 1)

RECURSIVE Concat(_)
Concat(chunks) ==
    IF chunks = << >> THEN << >> ELSE Head(chunks) \o Concat(Tail(chunks))

\* C1: the k-th backoff sleep since process start lasts min(2^(k-1), 120):
\* 1, 2, 4, 8, 16, 32, 64, 120, 120, ...; the sleep uses the value before
\* it is doubled, and the value to be slept next is min(2^k, 120).  This
\* holds in every run, so also in the runs in which no session succeeds.
C1_BackoffSequence ==
    /\ \A k \in 1..Len(sleeps) :
           /\ sleeps[k] = Min(Pow2(k - 1), 120)
           /\ sleeps[k] >= 1 /\ sleeps[k] <= 120
    /\ backoff = Min(Pow2(Len(sleeps)), 120)

C1_Witness ==
    /\ Len(sleeps) >= 9
    /\ sleeps[7] = 64 /\ sleeps[8] = 120 /\ sleeps[9] = 120

\* C2: when main sleeps after a session that completed a full poll cycle
\* (a write followed by the 10 s wait), the backoff it sleeps is 1.
C2_SuccessResetsBackoff ==
    (pc = "backoff" /\ polled) => backoff = 1

\* a chunk holding two terminator-delimited frames
TwoFrames(chunk) ==
    /\ EndsWithTerminator(chunk)
    /\ \E i \in 1..(Len(chunk) - 1) : chunk[i] = Terminator

\* C3: a chunk holding two terminator-delimited frames, fed into an empty
\* buffer, is handed to the parser as two frames, each ending at its own
\* terminator, and the buffer ends empty.
C3_TwoFramesFromOneChunk ==
    (last.before = << >> /\ TwoFrames(last.chunk)) =>
        /\ Len(last.emitted) = 2
        /\ EndsWithTerminator(last.emitted[1])
        /\ EndsWithTerminator(last.emitted[2])
        /\ last.emitted[1] \o last.emitted[2] = last.chunk
        /\ response = << >>

\* C4: a notification step whose frame fails to decode changes no gauge.
C4_AllOrNothing ==
    [][(now' # now /\ last'.raised) => gauges' = gauges]_vars

\* a frame that declares n >= 1 sensors and is too short to hold n two-byte
\* temperature fields ahead of its terminator
CutShort(frame) ==
    LET data == Slice(frame, 4, Len(frame))
        n    == FromBytes(Slice(data, 22, 23), FALSE)
    IN  n >= 1 /\ Len(data) - 1 < 23 + 2 * n

\* C5: parsing a frame cut short of its declared temperature fields raises.
C5_CutFrameRaises ==
    \A k \in DOMAIN last.emitted : CutShort(last.emitted[k]) => last.raised

\* C6: of the chunks fed since the buffer was last empty only the last can
\* end with the terminator; while none does, no frame is emitted and the
\* buffer is their concatenation; the chunk that does emits exactly one
\* frame, the concatenation of them all.
C6_Reassembly ==
    LET n == Len(last.fed)
    IN  /\ \A i \in 1..(n - 1) : ~EndsWithTerminator(last.fed[i])
        /\ (n > 0 /\ ~EndsWithTerminator(last.fed[n])) =>
               (last.emitted = << >> /\ response = Concat(last.fed))
        /\ (n > 0 /\ EndsWithTerminator(last.fed[n])) =>
               last.emitted = <<Concat(last.fed)>>

C6_Witness ==
    /\ last.fed = <<ChunkAB, ChunkCDw>>
    /\ last.emitted = <<<<65, 66, 67, 68, 119>>>>

\* C7: after a call that emitted a frame the buffer is empty, whether or
\* not the parse raised; a step that delivers no chunk emits no frame and
\* leaves the buffer and the gauges alone.
C7_EmptyAfterEmit ==
    /\ [](last.emitted # << >> => response = << >>)
    /\ [][now' = now =>
            (last' = last /\ response' = response /\ gauges' = gauges)]_vars

C7_Witness ==
    last.emitted # << >> /\ last.raised /\ response = << >>

\* what a complete frame with every field in range leaves in the sink
PublishedA ==
    /\ gauges.voltage = <<1500>> /\ gauges.current = <<-300>>
    /\ gauges.capacity_remaining = <<100>> /\ gauges.capacity_full = <<150>>
    /\ gauges.cycles = <<42>>
    /\ gauges.temperature[0] = 0 /\ gauges.temperature[1] = 269
    /\ gauges.last_fetch = now
PublishedB ==
    /\ gauges.voltage = <<2000>> /\ gauges.current = <<200>>
    /\ gauges.capacity_remaining = <<20000>> /\ gauges.capacity_full = <<20000>>
    /\ gauges.cycles = <<7>>
    /\ gauges.temperature[0] = -300
    /\ gauges.last_fetch = now

\* C8: a notification step whose frame fails to decode leaves the session
\* where it is and the backoff, the error counter and the sleeps unchanged;
\* a valid frame is decoded and published whatever was handled before it.
C8_DecodeFailureAbsorbed ==
    /\ [][(now' # now /\ last'.raised) =>
            (pc' = pc /\ pc \in {"settle", "write", "wait"}
             /\ backoff' = backoff /\ errors' = errors /\ sleeps' = sleeps)]_vars
    /\ [](last.emitted = <<FrameA>> => (~last.raised /\ PublishedA))
    /\ [](last.emitted = <<FrameB>> => (~last.raised /\ PublishedB))

\* FrameB published in a session that absorbed a failure before: only a
\* frame that failed at its second temperature leaves sensor 1 at 0
C8_Witness ==
    /\ last.emitted = <<FrameB>> /\ ~last.raised /\ PublishedB
    /\ 1 \in DOMAIN gauges.temperature /\ gauges.temperature[1] = 0
    /\ pc \in {"write", "wait"} /\ errors = 0

\* C9: main is always inside a session or sleeping a backoff, and every
\* backoff sleep is followed by a new connect attempt.
C9_NoTerminalState ==
    /\ [](pc \in {"connect", "subscribe", "settle", "write", "wait", "backoff"})
    /\ ((pc = "backoff") ~> (pc = "connect"))

C9_Witness == pc = "connect" /\ errors >= 3 /\ polled

\* the big-endian value of a slice of at most two bytes, written out
ExactRaw(data, signed) ==
    IF Len(data) = 0 THEN 0
    ELSE IF Len(data) = 1
         THEN data[1] - (IF signed /\ data[1] >= 128 THEN 256 ELSE 0)
         ELSE 256 * data[1] + data[2]
              - (IF signed /\ data[1] >= 128 THEN 65536 ELSE 0)

\* C10: convert returns raw + offset (times scale) unchanged exactly when it
\* lies in [min_val, max_val], both ends included, and raises otherwise;
\* voltage raw 2000 is accepted and raw 2001 rejected.
C10_RangeCheck ==
    ret.called =>
        LET result  == ExactRaw(args.data, args.signed) + args.offset
            inRange == /\ args.min_val * args.den <= result
                       /\ result <= args.max_val * args.den
        IN  /\ ret.raised <=> ~inRange
            /\ ~ret.raised => ret.value = result
            /\ args = ArgsOf(<<7, 208>>, TRUE, VoltageSite) =>
                   (~ret.raised /\ ret.value = 2000)
            /\ args = ArgsOf(<<7, 209>>, TRUE, VoltageSite) => ret.raised

C10_Witness ==
    /\ ret.called /\ ~ret.raised /\ ret.value = 20000
    /\ args = ArgsOf(<<78, 32>>, TRUE, CapacitySite)

\* the five fixed fields of a frame's data, each inside the range of the
\* layout table: voltage, capacities and cycles unsigned, current signed
FixedFieldsBeforeCycles(data) ==
    /\ Len(data) >= 10
    /\ ExactRaw(Slice(data, 0, 2), FALSE) <= 2000
    /\ ExactRaw(Slice(data, 2, 4), TRUE) >= -20000
    /\ ExactRaw(Slice(data, 2, 4), TRUE) <= 20000
    /\ ExactRaw(Slice(data, 4, 6), FALSE) <= 20000
    /\ ExactRaw(Slice(data, 6, 8), FALSE) <= 20000

\* C11: the cycles field of an emitted frame whose earlier fields are in
\* range is accepted for every two-byte value and published as the
\* unsigned integer 256 * data[8] + data[9].
C11_CyclesUnsigned ==
    \A k \in DOMAIN last.emitted :
        LET data == Slice(last.emitted[k], 4, Len(last.emitted[k]))
        IN  FixedFieldsBeforeCycles(data) =>
                gauges.cycles = <<256 * data[9] + data[10]>>

\* the declared sensor count and the raw value of sensor i (0-based)
SensorCount(data) == ExactRaw(Slice(data, 22, 23), FALSE)
SensorRaw(data, i) == ExactRaw(Slice(data, 23 + 2 * i, 25 + 2 * i), FALSE)

\* a complete frame: every declared temperature field lies ahead of the
\* terminator, and every field is inside the range of the layout table
CompleteInRange(data) ==
    /\ FixedFieldsBeforeCycles(data)
    /\ Len(data) >= 24
    /\ Len(data) - 1 >= 23 + 2 * SensorCount(data)
    /\ \A i \in 0..(SensorCount(data) - 1) :
           SensorRaw(data, i) >= 2431 /\ SensorRaw(data, i) <= 3731

\* the gauges hold the fields of data, mapped as the layout table says
Mapped(data) ==
    /\ gauges.voltage = <<ExactRaw(Slice(data, 0, 2), FALSE)>>
    /\ gauges.current = <<ExactRaw(Slice(data, 2, 4), TRUE)>>
    /\ gauges.capacity_remaining = <<ExactRaw(Slice(data, 4, 6), FALSE)>>
    /\ gauges.capacity_full = <<ExactRaw(Slice(data, 6, 8), FALSE)>>
    /\ gauges.cycles = <<ExactRaw(Slice(data, 8, 10), FALSE)>>
    /\ \A i \in 0..(SensorCount(data) - 1) :
           /\ i \in DOMAIN gauges.temperature
           /\ gauges.temperature[i] = SensorRaw(data, i) - 2731

\* C12: every complete frame whose fields are all in range is published
\* field by field as the layout table says, cycles as u[8:10].
C12_FieldMapping ==
    \A k \in DOMAIN last.emitted :
        LET data == Slice(last.emitted[k], 4, Len(last.emitted[k]))
        IN  CompleteInRange(data) => (~last.raised /\ Mapped(data))

\* The mapping of C12 for the frames whose cycles field is below 2^15, and
\* the sensors at or above the declared count left as they were.
MappingBelowSignBit ==
    /\ [](\A k \in DOMAIN last.emitted :
            LET data == Slice(last.emitted[k], 4, Len(last.emitted[k]))
            IN  (CompleteInRange(data) /\ data[9] < 128) =>
                    (~last.raised /\ Mapped(data)))
    /\ [][\A k \in DOMAIN last'.emitted :
            LET data == Slice(last'.emitted[k], 4, Len(last'.emitted[k]))
            IN  (now' # now /\ ~last'.raised) =>
                    \A i \in DOMAIN gauges'.temperature :
                        i >= SensorCount(data) =>
                            /\ i \in DOMAIN gauges.temperature
                            /\ gauges'.temperature[i] = gauges.temperature[i]]_vars

\* C13: the frames emitted so far followed by the buffer are the bytes
\* delivered so far, in order; the buffer is what was delivered since the
\* last emitted frame; every emitted frame ends with the terminator.
C13_Conservation ==
    /\ Concat(emittedAll) \o response = delivered
    /\ response = (IF last.emitted = << >> THEN Concat(last.fed) ELSE << >>)
    /\ \A k \in DOMAIN emittedAll : EndsWithTerminator(emittedAll[k])

C13_Witness ==
    /\ emittedAll = <<FrameA>>
    /\ response = ChunkAB
    /\ delivered = FrameA \o ChunkAB

IsEvent(ev, op, secs) == ev.op = op /\ ev.secs = secs

\* C14: a session's events are connect, subscribe, a sleep of 3, then
\* writes; a write happens only at the write await of a session, after the
\* settle sleep that follows the subscription or after the sleep of 10 that
\* follows the write before it, and writes DD A5 03 00 FF FD 77.
C14_SessionOrdering ==
    [][(recent' # recent /\ recent' # << >>) =>
         LET ev == recent'[Len(recent')]
         IN  /\ ev.op = "connect" => (pc = "connect" /\ recent' = <<ev>>)
             /\ ev.op = "subscribe" =>
                    (Len(recent) = 1 /\ recent[1].op = "connect")
             /\ ev.op = "sleep" =>
                    /\ Len(recent') = 2
                    /\ \/ IsEvent(ev, "sleep", 3) /\ recent'[1].op = "subscribe"
                       \/ IsEvent(ev, "sleep", 10) /\ recent'[1].op = "write"
             /\ ev.op = "write" =>
                    /\ pc = "write"
                    /\ ev.bytes = <<221, 165, 3, 0, 255, 253, 119>>
                    /\ Len(ev.bytes) = 7
                    /\ Len(recent) = 2
                    /\ \/ /\ recent[1].op = "subscribe"
                          /\ IsEvent(recent[2], "sleep", 3)
                       \/ /\ recent[1].op = "write"
                          /\ IsEvent(recent[2], "sleep", 10)]_vars

\* the second write of a session, a sleep of 10 after the first
C14_Witness ==
    /\ Len(recent) = 2
    /\ IsEvent(recent[1], "sleep", 10)
    /\ recent[2].op = "write"
    /\ pc = "wait"

\* C15: errors is the number of transport failures so far; it grows by one
\* in the step in which an await of poll raises, which is before the
\* backoff sleep of that failure, and in no other step.
C15_ErrorCounter ==
    /\ [](errors = failures)
    /\ [](errors = Len(sleeps) + (IF pc = "backoff" THEN 1 ELSE 0))
    /\ [][errors' # errors =>
            /\ errors' = errors + 1
            /\ failures' = failures + 1
            /\ pc \in {"connect", "subscribe", "write"} /\ pc' = "backoff"
            /\ now' = now /\ sleeps' = sleeps]_vars

\* three failures counted while a decode failure was absorbed uncounted
C15_Witness ==
    errors = 3 /\ failures = 3 /\ last.raised /\ pc = "backoff"

\* C16: last_fetch is set to the current time by the steps that emit a frame
\* and decode it without error, and is left unchanged by every other step.
C16_TimestampOnSuccess ==
    [][IF now' # now /\ last'.emitted # << >> /\ ~last'.raised
       THEN gauges'.last_fetch = now' /\ gauges'.last_fetch # gauges.last_fetch
       ELSE gauges'.last_fetch = gauges.last_fetch]_vars

\* a frame that failed after one that was published: the stamp is the older
C16_Witness ==
    last.emitted # << >> /\ last.raised /\ now = 2 /\ gauges.last_fetch = 1

\* C17: the buffer changes only in a notification step of a subscribed
\* session, to the buffer plus the chunk or to empty; no state shows a
\* buffer that ends with the terminator, so the append, the check, the
\* parse and the reset are one step.
C17_SingleWriter ==
    /\ [](~EndsWithTerminator(response))
    /\ [][response' # response =>
            /\ now' = now + 1
            /\ pc' = pc /\ pc \in {"settle", "write", "wait"}
            /\ \/ response' = response \o last'.chunk
               \/ response' = << >>]_vars

\* a buffer with bytes in it that a failure, a backoff sleep and a new
\* connect left alone
C17_Witness ==
    response = ChunkHead /\ pc = "subscribe" /\ errors = 2 /\ recent # << >>

\* C18: a session that starts finds the buffer empty.
C18_NoCrossSessionLeak ==
    (pc \in {"connect", "subscribe"}) => response = << >>

====
